---- MODULE Spec2Model ----
(***************************************************************************)
(* KrishiOne front end: the App shell (active view kept in sessionStorage  *)
(* 'tab'), the Digital Mandi listing store (useLocalStorage 'mandi-items'),*)
(* the Crop Doctor detection call and the Decision Meter trend heuristic.  *)
(*                                                                         *)
(* A click handler, the re-render it causes and the effects of that commit *)
(* are one step: React flushes the render and the effects of a discrete    *)
(* event before the next event is dispatched.                              *)
(***************************************************************************)
EXTENDS Integers, Sequences, FiniteSets, TLC

\* ------------------------------------------------------------- bounds
\* ids genId can issue in one run (listings added over all sessions)
NumIds == 2

\* ------------------------------------------------------------- values
Views == {"home", "crop-doctor", "market", "mandi", "weather", "chat", "finance"}

\* what the user can type into the form inputs
CropInputs == {"", "Tomato"}
QtyInputs == {10, 0}
PriceInputs == {1500, 0}
LocationInputs == {"", "Bhubaneswar"}
ContactInputs == {"", "9999999999"}
\* values Date.now() returns
Times == {1, 2}
\* numbers that occur in a record
NumVals == {0, 1, 2, 7, 10, 1500}

\* the storage of the browser: works, setItem throws (quota), or every
\* access throws (storage denied)
Health == {"ok", "quota", "denied"}

VARIABLES
    tab,        \* App: useState("home")
    tabRec,     \* sessionStorage 'tab': <<>> absent, <<text>> present
    mRec,       \* localStorage 'mandi-items': <<>> absent, <<tokens>> present
    items,      \* DigitalMandiPage: the useLocalStorage state (while mounted)
    form,       \* DigitalMandiPage: useState(initial)
    issued,     \* number of ids genId has returned so far
    health,     \* how the browser storage behaves in this page load
    appUp,      \* the React tree is mounted
    crash,      \* the exception that escaped and unmounted the tree, or "none"
    last,       \* the last Mandi handler that ran and its outcome
    file,       \* CropDoctorPage: useState(null), <<>> is null
    preview,    \* CropDoctorPage: useState("")
    loading,    \* CropDoctorPage: useState(false)
    result,     \* CropDoctorPage: useState(null), <<>> is null
    pending,    \* the detection requests awaiting their response, oldest first
    lastResp,   \* the response the last completed request received
    lastOut,    \* how the promise of detectDiseaseWithBackend settled for it
    series,     \* DecisionMeter: the series prop
    text,       \* DecisionMeter: the text it rendered, "" before the render
    emiP,       \* EMICalc: useState(100000), the principal
    emiR,       \* EMICalc: useState(10), the annual rate in percent
    emiN,       \* EMICalc: useState(24), the months
    emi,        \* EMICalc: the installment of the last render
    total,      \* EMICalc: emi * n of the last render
    interest,   \* EMICalc: total - P of the last render
    emiText,    \* EMICalc: the rupees shown as EMI
    interestText, \* EMICalc: the rupees shown as Total Interest
    totalText,  \* EMICalc: the rupees shown as Total Payment
    area,       \* YieldCalc: useState(1), acres
    crop,       \* YieldCalc: useState("Wheat")
    factor,     \* YieldCalc: useState(1), the practice factor
    yieldQtl,   \* YieldCalc: the yield of the last render
    revenue,    \* YieldCalc: the revenue of the last render
    yieldText,  \* YieldCalc: the tenths of a quintal shown as Expected Yield
    revenueText \* YieldCalc: the rupees shown as Approx. Revenue

appVars == <<tab, tabRec, mRec, items, form, issued, health, appUp, crash, last>>
docVars == <<file, preview, loading, result, pending, lastResp, lastOut>>
meterVars == <<series, text>>
emiVars == <<emiP, emiR, emiN, emi, total, interest, emiText, interestText, totalText>>
yieldVars == <<area, crop, factor, yieldQtl, revenue, yieldText, revenueText>>
toolVars == <<emiVars, yieldVars>>
vars == <<appVars, docVars, meterVars, toolVars>>

\* ------------------------------------------------------------- listings
initial == [crop |-> "Tomato", qty |-> 10, price |-> 1500,
            location |-> "Bhubaneswar", contact |-> "9999999999"]

\* an element of the parsed array: a listing object, null, or a number
El(k, id, ts, f) ==
    [k |-> k, id |-> id, ts |-> ts, crop |-> f.crop, qty |-> f.qty,
     price |-> f.price, location |-> f.location, contact |-> f.contact]
blank == [crop |-> "", qty |-> 0, price |-> 0, location |-> "", contact |-> ""]
ElNull == El("null", "", 0, blank)
ElNum(n) == El("num", "", 0, [blank EXCEPT !.qty = n])

\* (a listing built without the contact of the form)
NewListingNoContact(id, ts, f) == El("obj", id, ts, [f EXCEPT !.contact = ""])
\* { id: genId(), ts: Date.now(), ...form }
NewListing(id, ts, f) == El("obj", id, ts, f)

IdOf(n) == ToString(n)
IdNum(id) == CHOOSE n \in 0..(NumIds + 1) : IdOf(n) = id
IdPool == {IdOf(n) : n \in 0..NumIds}

\* (a generator that repeats itself)
genIdRepeat(n) == IdOf(1)
\* genId: crypto.randomUUID(), or the random fallback: an id that was never
\* returned before; n ids were returned so far
genId(n) == IdOf(n + 1)

\* ------------------------------------------------------------- JSON text
Tok(t, x) == [t |-> t, x |-> x]
P(x) == Tok("p", x)
K(x) == Tok("k", x)
S(x) == Tok("s", x)
N(n) == Tok("n", ToString(n))
W(x) == Tok("w", x)
NumOf(x) == CHOOSE n \in NumVals : ToString(n) = x
IsNum(x) == \E n \in NumVals : ToString(n) = x

\* JSON.stringify of one element of the array
StringifyEl(e) ==
    CASE e.k = "null" -> <<W("null")>>
      [] e.k = "num" -> <<N(e.qty)>>
      [] OTHER ->
           <<P("{"), K("id"), S(e.id), K("ts"), N(e.ts), K("crop"), S(e.crop),
             K("qty"), N(e.qty), K("price"), N(e.price),
             K("location"), S(e.location), K("contact"), S(e.contact), P("}")>>

RECURSIVE StringifyEls(_)
StringifyEls(a) ==
    IF a = <<>> THEN <<>> ELSE StringifyEl(Head(a)) \o StringifyEls(Tail(a))

\* JSON.stringify(state) for the array the store holds
Stringify(a) == <<P("[")>> \o StringifyEls(a) \o <<P("]")>>

ListingLen == 16
IsListingText(t) ==
    /\ Len(t) = ListingLen
    /\ t[1] = P("{") /\ t[16] = P("}")
    /\ t[2] = K("id") /\ t[3].t = "s"
    /\ t[4] = K("ts") /\ t[5].t = "n" /\ IsNum(t[5].x)
    /\ t[6] = K("crop") /\ t[7].t = "s"
    /\ t[8] = K("qty") /\ t[9].t = "n" /\ IsNum(t[9].x)
    /\ t[10] = K("price") /\ t[11].t = "n" /\ IsNum(t[11].x)
    /\ t[12] = K("location") /\ t[13].t = "s"
    /\ t[14] = K("contact") /\ t[15].t = "s"
ListingOf(t) ==
    El("obj", t[3].x, NumOf(t[5].x),
       [crop |-> t[7].x, qty |-> NumOf(t[9].x), price |-> NumOf(t[11].x),
        location |-> t[13].x, contact |-> t[15].x])

Bad == [ok |-> FALSE, k |-> "none", a |-> <<>>]
Val(k, a) == [ok |-> TRUE, k |-> k, a |-> a]
Cons(e, r) == IF r.ok THEN Val("arr", <<e>> \o r.a) ELSE Bad

RECURSIVE ParseEls(_)
ParseEls(t) ==
    IF t = <<>> THEN Val("arr", <<>>)
    ELSE IF t[1] = W("null") THEN Cons(ElNull, ParseEls(Tail(t)))
    ELSE IF t[1].t = "n" /\ IsNum(t[1].x)
         THEN Cons(ElNum(NumOf(t[1].x)), ParseEls(Tail(t)))
    ELSE IF Len(t) >= ListingLen /\ IsListingText(SubSeq(t, 1, ListingLen))
         THEN Cons(ListingOf(SubSeq(t, 1, ListingLen)),
                   ParseEls(SubSeq(t, ListingLen + 1, Len(t))))
    ELSE Bad

\* JSON.parse(raw): ok = FALSE when it throws SyntaxError
JsonParse(t) ==
    IF t = <<W("null")>> THEN Val("null", <<>>)
    ELSE IF t = <<P("{"), P("}")>> THEN Val("obj", <<>>)
    ELSE IF Len(t) >= 2 /\ t[1] = P("[") /\ t[Len(t)] = P("]")
         THEN ParseEls(SubSeq(t, 2, Len(t) - 1))
    ELSE Bad

\* ------------------------------------------------------------- storage
GetThrows(h) == h = "denied"
SetThrows(h) == h # "ok"

\* try { storage.setItem(key, text) } catch (e) {}
SetItem(rec, txt, h) == IF SetThrows(h) THEN rec ELSE <<txt>>

\* useLocalStorage: the useState initializer
\*   try { raw = getItem(key); return raw ? JSON.parse(raw) : initialValue }
\*   catch (e) { return initialValue }
LoadState(rec, h) ==
    IF GetThrows(h) \/ rec = <<>> \/ rec[1] = <<>> THEN Val("arr", <<>>)
    ELSE IF JsonParse(rec[1]).ok THEN JsonParse(rec[1]) ELSE Val("arr", <<>>)

\* (an effect that never writes)
PersistNever(rec, a, h) == rec
\* useLocalStorage: the effect, localStorage.setItem(key, JSON.stringify(state))
Persist(rec, a, h) == SetItem(rec, Stringify(a), h)

\* the render of DigitalMandiPage throws TypeError: items.length of null,
\* items.map of a value that is no array, it.id of a null element
RenderThrows(v) == v.k # "arr" \/ \E i \in 1..Len(v.a) : v.a[i].k = "null"

\* ------------------------------------------------------------- App
\* an exception escaped: React unmounts the whole tree
Dead(why) ==
    /\ appUp' = FALSE /\ crash' = why
    /\ tab' = "home" /\ items' = <<>> /\ form' = initial

\* the commit of a render whose tab is k # "mandi" or a mounting Mandi page;
\* rec is the 'tab' record the commit's effects start from
Show(k, rec) ==
    LET st == LoadState(mRec, health)
    IN  IF k = "mandi" /\ RenderThrows(st)
        THEN Dead("render") /\ tabRec' = rec /\ UNCHANGED mRec
        ELSE /\ appUp' = TRUE /\ crash' = "none"
             /\ tab' = k
             /\ tabRec' = SetItem(rec, k, health)
             /\ form' = initial
             /\ IF k = "mandi"
                THEN items' = st.a /\ mRec' = Persist(mRec, st.a, health)
                ELSE items' = <<>> /\ UNCHANGED mRec

\* TopNav onChange / HomePage go: setTab(k)
SetTab(k) ==
    /\ appUp /\ k # tab
    /\ UNCHANGED <<issued, health, docVars, meterVars, toolVars>>
    /\ last' = "none"
    /\ Show(k, tabRec)

\* (a start that restores nothing)
RestoredTabHome(rec) == "home"
\* t = sessionStorage.getItem("tab"); if (t) setTab(t)
RestoredTab(rec) == IF rec = <<>> \/ rec[1] = "" THEN "home" ELSE rec[1]

\* a (re)load of the page: App mounts with tab = "home", the restore effect
\* reads the record and the persist effect of that first commit writes "home"
Reload ==
    /\ UNCHANGED <<issued, health, docVars, meterVars, toolVars>>
    /\ last' = "reload"
    /\ IF GetThrows(health)
       THEN Dead("effect") /\ UNCHANGED <<tabRec, mRec>>
       ELSE LET first == SetItem(tabRec, "home", health)
            IN  Show(RestoredTab(tabRec), first)

\* ------------------------------------------------------------- Digital Mandi
OnMandi == appUp /\ tab = "mandi"

SetCrop(v) ==
    /\ OnMandi /\ form' = [form EXCEPT !.crop = v] /\ last' = "none"
    /\ UNCHANGED <<tab, tabRec, mRec, items, issued, health, appUp, crash>>
    /\ UNCHANGED <<docVars, meterVars, toolVars>>
SetQty(v) ==
    /\ OnMandi /\ form' = [form EXCEPT !.qty = v] /\ last' = "none"
    /\ UNCHANGED <<tab, tabRec, mRec, items, issued, health, appUp, crash>>
    /\ UNCHANGED <<docVars, meterVars, toolVars>>
SetPrice(v) ==
    /\ OnMandi /\ form' = [form EXCEPT !.price = v] /\ last' = "none"
    /\ UNCHANGED <<tab, tabRec, mRec, items, issued, health, appUp, crash>>
    /\ UNCHANGED <<docVars, meterVars, toolVars>>
SetLocation(v) ==
    /\ OnMandi /\ form' = [form EXCEPT !.location = v] /\ last' = "none"
    /\ UNCHANGED <<tab, tabRec, mRec, items, issued, health, appUp, crash>>
    /\ UNCHANGED <<docVars, meterVars, toolVars>>
SetContact(v) ==
    /\ OnMandi /\ form' = [form EXCEPT !.contact = v] /\ last' = "none"
    /\ UNCHANGED <<tab, tabRec, mRec, items, issued, health, appUp, crash>>
    /\ UNCHANGED <<docVars, meterVars, toolVars>>

\* (a check that forgets the contact)
MissingFieldNoContact(f) == f.crop = "" \/ f.location = ""
\* !form.crop || !form.location || !form.contact
MissingField(f) == f.crop = "" \/ f.location = "" \/ f.contact = ""

\* [...items, { id: genId(), ts: Date.now(), ...form }]
AddNext(a, id, ts, f) == Append(a, NewListing(id, ts, f))

addItem(ts) ==
    /\ OnMandi
    /\ UNCHANGED <<tab, tabRec, health, appUp, crash, docVars, meterVars, toolVars>>
    /\ IF MissingField(form)
       THEN last' = "addRejected" /\ UNCHANGED <<items, form, mRec, issued>>
       ELSE /\ issued < NumIds
            /\ items' = AddNext(items, genId(issued), ts, form)
            /\ form' = initial
            /\ issued' = issued + 1
            /\ mRec' = Persist(mRec, items', health)
            /\ last' = "add"

\* (a filter with the comparison inverted)
RemoveInverted(a, id) == SelectSeq(a, LAMBDA e : e.k = "obj" /\ e.id = id)
\* items.filter((i) => i.id !== id); a number has no id
RECURSIVE RemoveNext(_, _)
RemoveNext(a, id) ==
    IF a = <<>> THEN <<>>
    ELSE IF Head(a).k = "obj" /\ Head(a).id = id THEN RemoveNext(Tail(a), id)
    ELSE <<Head(a)>> \o RemoveNext(Tail(a), id)

remove(id) ==
    /\ OnMandi
    /\ UNCHANGED <<tab, tabRec, form, issued, health, appUp, crash>>
    /\ UNCHANGED <<docVars, meterVars, toolVars>>
    /\ items' = RemoveNext(items, id)
    /\ mRec' = Persist(mRec, items', health)
    /\ last' = IF items' = items THEN "removeMiss" ELSE "remove"

\* Two handler invocations in one task (two clicks dispatched before React
\* re-renders): both handlers belong to the same render, so both read the items
\* and the form of that render; React keeps the value of the last setItems
\* call, renders once, and the effect of useLocalStorage stores that value.
addItemTwice(ts1, ts2) ==
    /\ OnMandi
    /\ UNCHANGED <<tab, tabRec, health, appUp, crash, docVars, meterVars, toolVars>>
    /\ IF MissingField(form)
       THEN last' = "addRejected" /\ UNCHANGED <<items, form, mRec, issued>>
       ELSE /\ issued + 1 < NumIds
            /\ items' = AddNext(items, genId(issued + 1), ts2, form)
            /\ form' = initial
            /\ issued' = issued + 2
            /\ mRec' = Persist(mRec, items', health)
            /\ last' = "addTwice"
removeTwice(id1, id2) ==
    /\ OnMandi /\ id1 # id2
    /\ UNCHANGED <<tab, tabRec, form, issued, health, appUp, crash>>
    /\ UNCHANGED <<docVars, meterVars, toolVars>>
    /\ items' = RemoveNext(items, id2)
    /\ mRec' = Persist(mRec, items', health)
    /\ last' = "removeTwice"
addItemThenRemove(ts, id) ==
    /\ OnMandi /\ ~MissingField(form) /\ issued < NumIds
    /\ UNCHANGED <<tab, tabRec, health, appUp, crash, docVars, meterVars, toolVars>>
    /\ items' = RemoveNext(items, id)
    /\ form' = initial
    /\ issued' = issued + 1
    /\ mRec' = Persist(mRec, items', health)
    /\ last' = "addThenRemove"
removeThenAddItem(id, ts) ==
    /\ OnMandi /\ ~MissingField(form) /\ issued < NumIds
    /\ UNCHANGED <<tab, tabRec, health, appUp, crash, docVars, meterVars, toolVars>>
    /\ items' = AddNext(items, genId(issued), ts, form)
    /\ form' = initial
    /\ issued' = issued + 1
    /\ mRec' = Persist(mRec, items', health)
    /\ last' = "removeThenAdd"

\* ------------------------------------------------------------- Crop Doctor
\* requests the page may have outstanding at once
MaxPending == 2

Files == {"a.png", "b.png"}
BlobUrl(f) == "blob:" \o f

\* what the backend reports for an image
Diagnosis(f) == IF f = "a.png" THEN "Leaf Blight" ELSE "Rust"
Report(f) ==
    [k |-> "obj", disease |-> <<Diagnosis(f)>>, remedy |-> <<"Spray fungicide">>,
     confidence |-> <<90>>]
Undefined == <<>>
EmptyObj == [k |-> "obj", disease |-> Undefined, remedy |-> Undefined,
             confidence |-> Undefined]
NullVal == [k |-> "null", disease |-> Undefined, remedy |-> Undefined,
            confidence |-> Undefined]

\* what fetch can bring back for the request of image f: a network error, or a
\* response with a status and a body
Resp(net, status, body, f) == [net |-> net, status |-> status, body |-> body, f |-> f]
NoResp == Resp("none", 0, "none", "")
Responses(f) ==
    {Resp("error", 0, "none", f)} \cup
    {Resp("ok", st, b, f) : st \in {200, 500}, b \in {"report", "empty", "null", "invalid"}}

Settled(rejected, v) == [rejected |-> rejected, v |-> v]
Rejects == Settled(TRUE, NullVal)

\* (a client that does not look at res.ok)
detectDiseaseNoOkCheck(r) ==
    IF r.net = "error" THEN Rejects
    ELSE CASE r.body = "invalid" -> Rejects
           [] r.body = "null" -> Settled(FALSE, NullVal)
           [] r.body = "empty" -> Settled(FALSE, EmptyObj)
           [] OTHER -> Settled(FALSE, Report(r.f))
\* api.js detectDisease: fetch, throw unless res.ok, return res.json()
detectDisease(r) ==
    IF r.net = "error" THEN Rejects
    ELSE IF ~(r.status >= 200 /\ r.status <= 299) THEN Rejects
    ELSE CASE r.body = "invalid" -> Rejects
           [] r.body = "null" -> Settled(FALSE, NullVal)
           [] r.body = "empty" -> Settled(FALSE, EmptyObj)
           [] OTHER -> Settled(FALSE, Report(r.f))

Diag(name, remedy, confidence) ==
    [name |-> name, remedy |-> remedy, confidence |-> confidence]
Fallback == Diag(<<"Unavailable">>, <<"Backend not reachable.">>, <<0>>)
NoDiag == Diag(Undefined, Undefined, Undefined)

\* try { r = await detectDisease(file); return { name: r.disease, ... } }
\* catch (e) { return fallback }: r.disease of null throws inside the try
detectDiseaseWithBackend(r) ==
    LET d == detectDisease(r)
    IN  IF d.rejected \/ d.v.k = "null" THEN Settled(FALSE, Fallback)
        ELSE Settled(FALSE, Diag(d.v.disease, d.v.remedy, d.v.confidence))

\* onFile(f) up to its await; fs = <<>> is a cancelled file dialog
onFile(fs) ==
    /\ UNCHANGED <<appVars, meterVars, toolVars, lastResp, lastOut>>
    /\ IF fs = <<>>
       THEN UNCHANGED <<file, preview, loading, result, pending>>
       ELSE /\ Len(pending) < MaxPending
            /\ file' = fs
            /\ preview' = BlobUrl(fs[1])
            /\ loading' = TRUE
            /\ pending' = Append(pending, fs[1])
            /\ UNCHANGED result

DropAt(q, i) == SubSeq(q, 1, i - 1) \o SubSeq(q, i + 1, Len(q))

\* the rest of onFile once request i has its response r
onFileResume(i, r) ==
    /\ i \in 1..Len(pending)
    /\ r \in Responses(pending[i])
    /\ UNCHANGED <<appVars, meterVars, toolVars, file, preview>>
    /\ pending' = DropAt(pending, i)
    /\ lastResp' = r
    /\ lastOut' = detectDiseaseWithBackend(r)
    /\ IF lastOut'.rejected
       THEN UNCHANGED <<result, loading>>
       ELSE result' = <<lastOut'.v>> /\ loading' = FALSE

\* the X button on the preview
clearPreview ==
    /\ preview # ""
    /\ preview' = "" /\ file' = <<>> /\ result' = <<>>
    /\ UNCHANGED <<appVars, meterVars, toolVars, loading, pending, lastResp, lastOut>>

\* ------------------------------------------------------------- Decision Meter
\* length of the longest series
MaxLen == 5
PriceVals == {10, 20, 30}
SeriesSet == UNION {[1..n -> PriceVals] : n \in 0..MaxLen}

Sign(x) == IF x > 0 THEN 1 ELSE IF x < 0 THEN -1 ELSE 0

\* (a heuristic that reads the first four samples)
trendFromStart(s) == IF Len(s) < 4 THEN 0 ELSE Sign(s[4] - s[1])
\* series.slice(-4), Math.sign(last[3] - last[0])
trend(s) ==
    IF Len(s) < 4 THEN 0
    ELSE LET l == SubSeq(s, Len(s) - 3, Len(s)) IN Sign(l[4] - l[1])

DecisionText(s) ==
    IF trend(s) > 0 THEN "Hold (Uptrend)"
    ELSE IF trend(s) < 0 THEN "Sell Soon (Downtrend)"
    ELSE "Neutral"

RenderMeter ==
    /\ text = ""
    /\ text' = DecisionText(series)
    /\ UNCHANGED <<appVars, docVars, toolVars, series>>

\* ------------------------------------------------------------- Number
\* A JavaScript Number is an IEEE 754 binary64 value. Its 53-bit significand
\* does not fit the integers of the model checker, so naturals of any size are
\* kept as sequences of 12-bit limbs, least significant first, without leading
\* zero limbs (0 is <<>>).
LimbBits == 12
Base == 2^LimbBits
\* significand bits of binary64
Precision == 53

Max(ns) == CHOOSE i \in ns : \A j \in ns : j <= i
Min(i, j) == IF i < j THEN i ELSE j
Limb(a, i) == IF i <= Len(a) THEN a[i] ELSE 0
\* a without its leading zero limbs
Trim(a) ==
    LET nz == {i \in 1..Len(a) : a[i] # 0}
    IN  IF nz = {} THEN <<>> ELSE SubSeq(a, 1, Max(nz))

\* one pass of carrying: every limb keeps its residue and hands the rest (a
\* carry, or a borrow when it is negative) to the next limb
CarryOnce(c) ==
    <<>> \o [k \in 1..(Len(c) + 1) |->
                (IF k <= Len(c) THEN c[k] % Base ELSE 0) +
                (IF k > 1 THEN c[k - 1] \div Base ELSE 0)]
\* the limbs of the natural number sum of c[k] * Base^(k-1)
RECURSIVE Carry(_)
Carry(c) ==
    IF \A k \in 1..Len(c) : c[k] >= 0 /\ c[k] < Base THEN Trim(c)
    ELSE Carry(CarryOnce(c))

RECURSIVE BigOfInt(_)
BigOfInt(k) == IF k = 0 THEN <<>> ELSE <<k % Base>> \o BigOfInt(k \div Base)
RECURSIVE IntOfBig(_)
IntOfBig(a) == IF a = <<>> THEN 0 ELSE a[1] + Base * IntOfBig(Tail(a))

BigAdd(a, b) ==
    Carry(<<>> \o [k \in 1..(IF Len(a) > Len(b) THEN Len(a) ELSE Len(b)) |->
                      Limb(a, k) + Limb(b, k)])
\* a - b for a >= b
BigSub(a, b) == Carry(<<>> \o [k \in 1..Len(a) |-> a[k] - Limb(b, k)])

\* the sign of a - b
BigCmp(a, b) ==
    IF Len(a) > Len(b) THEN 1
    ELSE IF Len(a) < Len(b) THEN -1
    ELSE LET df == {i \in 1..Len(a) : a[i] # b[i]}
         IN  IF df = {} THEN 0 ELSE IF a[Max(df)] > b[Max(df)] THEN 1 ELSE -1

\* a * k for k <= Base
BigMulSmall(a, k) == Carry(<<>> \o [i \in 1..Len(a) |-> a[i] * k])

\* the sum of a[i] * b[k + 1 - i] over the i from lo to hi
RECURSIVE ColumnSum(_, _, _, _, _)
ColumnSum(a, b, k, lo, hi) ==
    IF lo > hi THEN 0
    ELSE IF lo = hi THEN a[lo] * b[k + 1 - lo]
    ELSE ColumnSum(a, b, k, lo, (lo + hi) \div 2) +
         ColumnSum(a, b, k, (lo + hi) \div 2 + 1, hi)
BigMul(a, b) ==
    IF a = <<>> \/ b = <<>> THEN <<>>
    ELSE Carry(<<>> \o [k \in 1..(Len(a) + Len(b) - 1) |->
                           ColumnSum(a, b, k, IF k > Len(b) THEN k + 1 - Len(b) ELSE 1,
                                     Min(k, Len(a)))])

ShiftLimbs(a, m) == IF a = <<>> THEN <<>> ELSE [i \in 1..m |-> 0] \o a
\* a * 2^s
BigShl(a, s) == ShiftLimbs(BigMulSmall(a, 2^(s % LimbBits)), s \div LimbBits)
\* floor(a / 2^s)
BigShr(a, s) ==
    LET m == s \div LimbBits
        t == s % LimbBits
        d == IF m >= Len(a) THEN <<>> ELSE SubSeq(a, m + 1, Len(a))
    IN  Trim(<<>> \o [i \in 1..Len(d) |->
                 (d[i] \div 2^t) + (Limb(d, i + 1) % 2^t) * 2^(LimbBits - t)])

\* bit i of a, bit 0 the least significant
Bit(a, i) == (Limb(a, i \div LimbBits + 1) \div 2^(i % LimbBits)) % 2
BitLenSmall(k) == CHOOSE j \in 0..LimbBits : k < 2^j /\ (j = 0 \/ k >= 2^(j - 1))
BitLen(a) ==
    IF a = <<>> THEN 0 ELSE LimbBits * (Len(a) - 1) + BitLenSmall(a[Len(a)])

\* the number of zero bits below the lowest one bit of a # 0
TrailingZeros(a) ==
    LET i0 == CHOOSE i \in 1..Len(a) : a[i] # 0 /\ \A j \in 1..(i - 1) : a[j] = 0
    IN  LimbBits * (i0 - 1) +
        (CHOOSE j \in 0..LimbBits : a[i0] % 2^j = 0 /\ a[i0] % 2^(j + 1) # 0)

\* floor(r / b) for r < b * Base: exact when b has at most 15 bits, and
\* otherwise at most 2 above the quotient of the leading bits
Digit(r, b) ==
    LET sh == IF BitLen(b) > 15 THEN BitLen(b) - 15 ELSE 0
        rt == IntOfBig(BigShr(r, sh))
        bt == IntOfBig(BigShr(b, sh))
    IN  IF sh = 0 THEN rt \div bt
        ELSE Max({c \in (rt \div (bt + 1))..(rt \div (bt + 1) + 2) :
                     BigCmp(BigMulSmall(b, c), r) <= 0})
\* floor(a / b) and a mod b by long division over the limbs i..Len(a) of a
RECURSIVE DivFrom(_, _, _)
DivFrom(a, b, i) ==
    IF i > Len(a) THEN [q |-> <<>>, r |-> <<>>]
    ELSE LET p == DivFrom(a, b, i + 1)
             r1 == Trim(<<a[i]>> \o p.r)
             d == Digit(r1, b)
         IN  IF p.r = <<>> /\ a[i] = 0 THEN [q |-> Trim(<<0>> \o p.q), r |-> <<>>]
             ELSE [q |-> Trim(<<d>> \o p.q), r |-> BigSub(r1, BigMulSmall(b, d))]
BigDivMod(a, b) == DivFrom(a, b, 1)

\* The Number s * m * 2^e, s the sign (1 or -1), m odd (or <<>>, the Number 0).
\* The exponent is not bounded: the inputs below keep every value far from
\* overflow and underflow.
Num(s, m, e) == [s |-> s, m |-> m, e |-> e]
Zero == Num(1, <<>>, 0)
Canon(s, m, e) ==
    IF m = <<>> THEN Zero
    ELSE LET z == TrailingZeros(m) IN Num(s, BigShr(m, z), e + z)

\* s * m * 2^e rounded to the nearest Number, ties to even; inexact says that
\* the exact value is a little above m * 2^e
RoundNearest(s, m, e, inexact) ==
    IF BitLen(m) <= Precision THEN Canon(s, m, e)
    ELSE LET d == BitLen(m) - Precision
             q == BigShr(m, d)
             c == BigCmp(BigSub(m, BigShl(q, d)), BigShl(<<1>>, d - 1))
             up == c > 0 \/ (c = 0 /\ (inexact \/ Bit(q, 0) = 1))
         IN  Canon(s, IF up THEN BigAdd(q, <<1>>) ELSE q, e + d)

NumOfInt(k) == IF k < 0 THEN Canon(-1, BigOfInt(-k), 0) ELSE Canon(1, BigOfInt(k), 0)

\* x * y
NumMul(x, y) == RoundNearest(x.s * y.s, BigMul(x.m, y.m), x.e + y.e, FALSE)

\* x / y for y # 0
NumDiv(x, y) ==
    IF x.m = <<>> THEN Zero
    ELSE LET k0 == Precision + 3 + BitLen(y.m) - BitLen(x.m)
             k == IF k0 < 0 THEN 0 ELSE k0
             qr == BigDivMod(BigShl(x.m, k), y.m)
         IN  RoundNearest(x.s * y.s, qr.q, x.e - y.e - k, qr.r # <<>>)

\* the sign of x - y
NumCmp(x, y) ==
    LET e0 == Min(x.e, y.e)
        a == BigShl(x.m, x.e - e0)
        b == BigShl(y.m, y.e - e0)
    IN  IF x.s = y.s THEN x.s * BigCmp(a, b)
        ELSE IF a = <<>> /\ b = <<>> THEN 0 ELSE x.s

\* x + y
NumAdd(x, y) ==
    LET e0 == Min(x.e, y.e)
        a == BigShl(x.m, x.e - e0)
        b == BigShl(y.m, y.e - e0)
    IN  IF x.s = y.s THEN RoundNearest(x.s, BigAdd(a, b), e0, FALSE)
        ELSE IF BigCmp(a, b) >= 0 THEN RoundNearest(x.s, BigSub(a, b), e0, FALSE)
        ELSE RoundNearest(y.s, BigSub(b, a), e0, FALSE)
Neg(x) == IF x.m = <<>> THEN x ELSE Num(-x.s, x.m, x.e)
\* x - y
NumSub(x, y) == NumAdd(x, Neg(y))

RECURSIVE BigPow(_, _)
BigPow(a, n) ==
    IF n = 0 THEN <<1>>
    ELSE LET h == BigPow(a, n \div 2)
         IN  IF n % 2 = 1 THEN BigMul(BigMul(h, h), a) ELSE BigMul(h, h)

\* Math.pow(x, n) for x > 0 and a whole n >= 1. The result is
\* implementation-approximated: x itself for n = 1, and otherwise one of the two
\* Numbers next to the exact power (the power itself when it is a Number).
MathPow(x, n) ==
    LET m == BigPow(x.m, n)
        d == BitLen(m) - Precision
        q == BigShr(m, d)
    IN  IF n = 1 \/ d <= 0 THEN {Canon(1, m, x.e * n)}
        ELSE {Canon(1, q, x.e * n + d), Canon(1, BigAdd(q, <<1>>), x.e * n + d)}

\* Math.round(x) = floor(x + 0.5), as an integer
MathRound(x) ==
    IF x.e >= 0 THEN x.s * IntOfBig(BigShl(x.m, x.e))
    ELSE LET d == -x.e
             q == BigShr(x.m, d)
             c == BigCmp(BigSub(x.m, BigShl(q, d)), BigShl(<<1>>, d - 1))
         IN  IF x.s = 1 THEN IntOfBig(q) + (IF c >= 0 THEN 1 ELSE 0)
             ELSE -(IntOfBig(q) + (IF c > 0 THEN 1 ELSE 0))

\* ------------------------------------------------------------- EMI calculator
One == NumOfInt(1)

\* what the user can type into the inputs: a principal > 0, a rate >= 0 and a
\* whole number of months >= 1
PrincipalInputs ==
    {NumOfInt(100000), NumOfInt(50000), NumOfInt(1000), Num(1, <<905, 1>>, -1)}
RateInputs == {NumOfInt(10), NumOfInt(12), Num(1, <<17>>, -1), Zero, Num(1, <<1>>, -19)}
MonthInputs == {24, 12, 2, 1}

\* m = r / 12 / 100
MonthlyRate(r) == NumDiv(NumDiv(r, NumOfInt(12)), NumOfInt(100))

\* the values Math.pow(1 + m, n) can have; it is not called when m === 0
Growths(r, n) ==
    IF MonthlyRate(r) = Zero THEN {One} ELSE MathPow(NumAdd(One, MonthlyRate(r)), n)

\* m === 0 ? P / n : P * m * Math.pow(1 + m, n) / (Math.pow(1 + m, n) - 1),
\* pw being the value of Math.pow(1 + m, n)
Installment(p, r, n, pw) ==
    IF MonthlyRate(r) = Zero THEN NumDiv(p, NumOfInt(n))
    ELSE NumDiv(NumMul(NumMul(p, MonthlyRate(r)), pw), NumSub(pw, One))

\* (a total made of the rounded installment)
TotalOfRounded(e, n) == NumOfInt(MathRound(e) * n)
\* total = emi * n
TotalOf(e, n) == NumMul(e, NumOfInt(n))
\* interest = total - P
InterestOf(t, p) == NumSub(t, p)

\* a state change of EMICalc and the render it causes: the three values are
\* computed one from the other and shown through Math.round
EmiRender(p, r, n) ==
    /\ emiP' = p /\ emiR' = r /\ emiN' = n
    /\ \E pw \in Growths(r, n) : emi' = Installment(p, r, n, pw)
    /\ total' = TotalOf(emi', n)
    /\ interest' = InterestOf(total', p)
    /\ emiText' = MathRound(emi')
    /\ interestText' = MathRound(interest')
    /\ totalText' = MathRound(total')
    /\ UNCHANGED <<appVars, docVars, meterVars, yieldVars>>

\* the onChange handlers of the three inputs
setP(v) == v # emiP /\ EmiRender(v, emiR, emiN)
setR(v) == v # emiR /\ EmiRender(emiP, v, emiN)
setN(v) == v # emiN /\ EmiRender(emiP, emiR, v)

\* ------------------------------------------------------------- Yield calculator
baseYield == [Wheat |-> 18, Rice |-> 22, Maize |-> 20, Tomato |-> 80, Onion |-> 100]
Crops == DOMAIN baseYield
\* rupees per quintal
PricePerQtl == 2000

\* acres the user can type: 1, 2, 3, 10, 0.5, 2.5 and 0.1
AreaInputs ==
    {NumOfInt(1), NumOfInt(2), NumOfInt(3), NumOfInt(10), Num(1, <<1>>, -1),
     Num(1, <<5>>, -1), Num(1, <<3277, 3276, 3276, 3276, 12>>, -55)}
\* the options of the select: 0.9, 1.0 and 1.1
FactorInputs ==
    {Num(1, <<3277, 3276, 3276, 3276, 28>>, -53), NumOfInt(1),
     Num(1, <<3277, 3276, 3276, 3276, 8>>, -51)}

\* (a yield that ignores the practice factor)
YieldQtlNoFactor(c, a, f) == NumMul(NumOfInt(baseYield[c]), a)
\* yieldQtl = baseYield[crop] * area * factor
YieldQtl(c, a, f) == NumMul(NumMul(NumOfInt(baseYield[c]), a), f)
\* revenue = yieldQtl * 2000
Revenue(y) == NumMul(y, NumOfInt(PricePerQtl))

\* x.toFixed(1): the whole number of tenths nearest to x, the larger of two
ToFixed1(x) == MathRound(Num(x.s, BigMulSmall(x.m, 10), x.e))

\* a state change of YieldCalc and the render it causes
YieldRender(c, a, f) ==
    /\ crop' = c /\ area' = a /\ factor' = f
    /\ yieldQtl' = YieldQtl(c, a, f)
    /\ revenue' = Revenue(yieldQtl')
    /\ yieldText' = ToFixed1(yieldQtl')
    /\ revenueText' = MathRound(revenue')
    /\ UNCHANGED <<appVars, docVars, meterVars, emiVars>>

\* the onChange handlers of the input and the two selects
setArea(v) == v # area /\ YieldRender(crop, v, factor)
setCrop(v) == v # crop /\ YieldRender(v, area, factor)
setFactor(v) == v # factor /\ YieldRender(crop, area, v)

\* ------------------------------------------------------------- specifications
\* a listing written by an earlier session
Old == NewListing(IdOf(0), 1, [initial EXCEPT !.crop = "Rice"])

Boot ==
    /\ tab = "home" /\ items = <<>> /\ form = initial /\ issued = 0
    /\ appUp = FALSE /\ crash = "none" /\ last = "none"
DocIdle ==
    /\ file = <<>> /\ preview = "" /\ loading = FALSE /\ result = <<>>
    /\ pending = <<>> /\ lastResp = NoResp /\ lastOut = Settled(FALSE, NoDiag)
MeterIdle == series = <<>> /\ text = ""
\* EMICalc and YieldCalc before their first render
EmiIdle ==
    /\ emiP = NumOfInt(100000) /\ emiR = NumOfInt(10) /\ emiN = 24
    /\ emi = Zero /\ total = Zero /\ interest = Zero
    /\ emiText = 0 /\ interestText = 0 /\ totalText = 0
YieldIdle ==
    /\ area = NumOfInt(1) /\ crop = "Wheat" /\ factor = NumOfInt(1)
    /\ yieldQtl = Zero /\ revenue = Zero /\ yieldText = 0 /\ revenueText = 0

\* the application in a browser whose storage works and holds what the
\* application wrote
Init ==
    /\ Boot /\ DocIdle /\ MeterIdle /\ EmiIdle /\ YieldIdle
    /\ health = "ok"
    /\ tabRec = <<>>
    /\ mRec \in {<<>>, <<Stringify(<<Old>>)>>}

Next ==
    \/ \E k \in Views : SetTab(k)
    \/ Reload
    \/ \E v \in CropInputs : SetCrop(v)
    \/ \E v \in QtyInputs : SetQty(v)
    \/ \E v \in LocationInputs : SetLocation(v)
    \/ \E v \in ContactInputs : SetContact(v)
    \/ \E ts \in Times : addItem(ts)
    \/ \E id \in IdPool : remove(id)

Spec == Init /\ [][Next]_vars

\* the same application in a browser whose records hold anything and whose
\* storage may throw
HostileRecs ==
    {<<>>, <<<<>>>>, <<<<P("["), P("{")>>>>, <<<<W("null")>>>>,
     <<<<P("{"), P("}")>>>>, <<Stringify(<<ElNull>>)>>, <<Stringify(<<ElNum(7)>>)>>,
     <<Stringify(<<>>)>>, <<Stringify(<<Old>>)>>}

InitHostile ==
    /\ Boot /\ DocIdle /\ MeterIdle /\ EmiIdle /\ YieldIdle
    /\ health \in Health
    /\ tabRec \in {<<>>, <<"">>, <<"mandi">>, <<"market">>, <<"bogus">>}
    /\ mRec \in HostileRecs

SpecHostile == InitHostile /\ [][Next]_vars

\* the Digital Mandi page, mounted on an empty store: every input of a
\* listing's numbers, and handlers that run singly or two in one task
InitMandi ==
    /\ DocIdle /\ MeterIdle /\ EmiIdle /\ YieldIdle
    /\ tab = "mandi" /\ appUp = TRUE /\ crash = "none" /\ last = "none"
    /\ items = <<>> /\ form = initial /\ issued = 0
    /\ health = "ok" /\ tabRec = <<"mandi">> /\ mRec = Persist(<<>>, <<>>, "ok")

NextMandi ==
    \/ \E v \in CropInputs : SetCrop(v)
    \/ \E v \in QtyInputs : SetQty(v)
    \/ \E v \in PriceInputs : SetPrice(v)
    \/ \E ts \in Times : addItem(ts)
    \/ \E id \in IdPool : remove(id)
    \/ \E ts1, ts2 \in Times : addItemTwice(ts1, ts2)
    \/ \E id1, id2 \in IdPool : removeTwice(id1, id2)
    \/ \E ts \in Times : \E id \in IdPool : addItemThenRemove(ts, id)
    \/ \E id \in IdPool : \E ts \in Times : removeThenAddItem(id, ts)

SpecMandi == InitMandi /\ [][NextMandi]_vars

\* the Crop Doctor page, mounted
InitDoctor ==
    /\ DocIdle /\ MeterIdle /\ EmiIdle /\ YieldIdle
    /\ tab = "crop-doctor" /\ appUp = TRUE /\ crash = "none" /\ last = "none"
    /\ items = <<>> /\ form = initial /\ issued = 0
    /\ health = "ok" /\ tabRec = <<"crop-doctor">> /\ mRec = <<>>

NextDoctor ==
    \/ \E fs \in {<<>>} \cup {<<f>> : f \in Files} : onFile(fs)
    \/ \E i \in 1..MaxPending : \E f \in Files : \E r \in Responses(f) : onFileResume(i, r)
    \/ clearPreview

SpecDoctor == InitDoctor /\ [][NextDoctor]_vars

\* the Decision Meter over every series
InitMeter ==
    /\ Boot /\ DocIdle /\ EmiIdle /\ YieldIdle
    /\ health = "ok" /\ tabRec = <<>> /\ mRec = <<>>
    /\ series \in SeriesSet /\ text = ""

NextMeter == RenderMeter

SpecMeter == InitMeter /\ [][NextMeter]_vars

\* the Finance Tools page, mounted: the EMI calculator after its first render
FinanceUp ==
    /\ DocIdle /\ MeterIdle
    /\ tab = "finance" /\ appUp = TRUE /\ crash = "none" /\ last = "none"
    /\ items = <<>> /\ form = initial /\ issued = 0
    /\ health = "ok" /\ tabRec = <<"finance">> /\ mRec = <<>>

InitEmi ==
    /\ FinanceUp /\ YieldIdle
    /\ emiP = NumOfInt(100000) /\ emiR = NumOfInt(10) /\ emiN = 24
    /\ \E pw \in Growths(emiR, emiN) : emi = Installment(emiP, emiR, emiN, pw)
    /\ total = TotalOf(emi, emiN)
    /\ interest = InterestOf(total, emiP)
    /\ emiText = MathRound(emi)
    /\ interestText = MathRound(interest)
    /\ totalText = MathRound(total)

NextEmi ==
    \/ \E v \in PrincipalInputs : setP(v)
    \/ \E v \in RateInputs : setR(v)
    \/ \E v \in MonthInputs : setN(v)

SpecEmi == InitEmi /\ [][NextEmi]_vars

\* the same page: the yield calculator after its first render
InitYield ==
    /\ FinanceUp /\ EmiIdle
    /\ area = NumOfInt(1) /\ crop = "Wheat" /\ factor = NumOfInt(1)
    /\ yieldQtl = YieldQtl(crop, area, factor)
    /\ revenue = Revenue(yieldQtl)
    /\ yieldText = ToFixed1(yieldQtl)
    /\ revenueText = MathRound(revenue)

NextYield ==
    \/ \E v \in AreaInputs : setArea(v)
    \/ \E v \in Crops : setCrop(v)
    \/ \E v \in FactorInputs : setFactor(v)

SpecYield == InitYield /\ [][NextYield]_vars

\* ------------------------------------------------------------- properties
\* C1: whenever the listing store is mounted, after each add, remove, mount or
\* reload and its persistence effect the 'mandi-items' record reads back (as a
\* re-mount reads it) to the collection held in memory: the same listings, in
\* the same order, with the same field values; and a reload of the page leaves
\* the collection as it was.
C1_RecordMirrorsItems ==
    [][/\ (appUp' /\ tab' = "mandi") =>
            /\ mRec' # <<>>
            /\ JsonParse(mRec'[1]) = [ok |-> TRUE, k |-> "arr", a |-> items']
            /\ LoadState(mRec', health').a = items'
       /\ (Reload /\ appUp /\ tab = "mandi") =>
            (appUp' /\ tab' = "mandi" /\ items' = items)]_vars
C1_Witness ==
    /\ appUp /\ tab = "mandi" /\ last = "reload"
    /\ Len(items) = 2 /\ items[1].id = IdOf(0) /\ items[2].id = IdOf(2)
    /\ items[2].qty = 0

\* the record holds a JSON array whose elements are all listing objects
ListOfListings(rec) ==
    /\ rec # <<>> /\ rec[1] # <<>>
    /\ JsonParse(rec[1]).ok /\ JsonParse(rec[1]).k = "arr"
    /\ \A i \in 1..Len(JsonParse(rec[1]).a) : JsonParse(rec[1]).a[i].k = "obj"
\* a step that mounts DigitalMandiPage and so loads the store
LoadsStore ==
    /\ ~GetThrows(health)
    /\ \/ appUp /\ tab # "mandi" /\ SetTab("mandi")
       \/ Reload /\ tabRec = <<"mandi">>
\* C2: a load of the listing store from a record that is absent, not JSON, or
\* JSON that is no list of listings gives the empty collection and raises
\* nothing.
C2_FailsOpen ==
    [][(LoadsStore /\ ~ListOfListings(mRec)) =>
           (crash' = "none" /\ appUp' /\ items' = <<>>)]_vars

\* C3: add with an empty crop, location or contact changes neither the
\* collection, the record nor the form and reports nothing; add with all three
\* filled in makes the collection one listing longer.
C3_AddValidates ==
    [][(\E ts \in Times : addItem(ts)) =>
           IF form.crop = "" \/ form.location = "" \/ form.contact = ""
           THEN items' = items /\ mRec' = mRec /\ form' = form /\ crash' = crash
           ELSE Len(items') = Len(items) + 1]_vars
C3_Witness ==
    last = "addRejected" /\ form.contact = "" /\ form.crop # "" /\ Len(items) = 1

\* C4: no two listings of the collection have the same id, and the listings
\* stand in the order in which they were added.
C4_UniqueIdsInOrder ==
    \A i, j \in 1..Len(items) :
        i < j => /\ items[i].id # items[j].id
                 /\ IdNum(items[i].id) < IdNum(items[j].id)
C4_Witness ==
    last = "add" /\ Len(items) >= 2 /\ issued = NumIds

\* C5: remove(id) deletes the listing with that id when there is one, leaves
\* every other listing as it was and in the same order, and changes nothing
\* when no listing has that id.
C5_RemoveFrame ==
    [][\A id \in IdPool :
           remove(id) =>
               IF \E i \in 1..Len(items) : items[i].id = id
               THEN \E i \in 1..Len(items) :
                        /\ items[i].id = id
                        /\ items' = SubSeq(items, 1, i - 1) \o
                                    SubSeq(items, i + 1, Len(items))
               ELSE items' = items]_vars
C5_Witness ==
    last = "remove" /\ Len(items) >= 1 /\ issued >= 1

\* C6: add(L) on the empty collection leaves exactly one entry, whose crop,
\* quantity, price, location and contact are those of L, and removing that
\* entry's id leaves the collection empty.
C6_RoundTrip ==
    [][/\ ((\E ts \in Times : addItem(ts)) /\ items = <<>> /\
           form.crop # "" /\ form.location # "" /\ form.contact # "") =>
            /\ Len(items') = 1
            /\ items'[1].crop = form.crop /\ items'[1].qty = form.qty
            /\ items'[1].price = form.price
            /\ items'[1].location = form.location
            /\ items'[1].contact = form.contact
       /\ \A id \in IdPool :
            (remove(id) /\ Len(items) = 1 /\ items[1].id = id) => items' = <<>>]_vars
C6_Witness ==
    /\ appUp /\ tab = "mandi" /\ last = "remove" /\ items = <<>>
    /\ issued = 1 /\ mRec = <<Stringify(<<>>)>>

\* C7: the detection call never rejects: a network error, a status outside 2xx
\* or a body that is no JSON settles it with the fallback (Unavailable, Backend
\* not reachable., 0), and a 2xx JSON report settles it with the report's
\* disease, remedy and confidence.
C7_DetectNeverRejects ==
    lastResp.net # "none" =>
        /\ ~lastOut.rejected
        /\ (lastResp.net = "error" \/ lastResp.status # 200 \/
            lastResp.body \in {"invalid", "null"}) =>
               /\ lastOut.v.name = <<"Unavailable">>
               /\ lastOut.v.remedy = <<"Backend not reachable.">>
               /\ lastOut.v.confidence = <<0>>
        /\ (lastResp.net = "ok" /\ lastResp.status = 200 /\ lastResp.body = "report") =>
               /\ lastOut.v.name = <<Diagnosis(lastResp.f)>>
               /\ lastOut.v.remedy = <<"Spray fungicide">>
               /\ lastOut.v.confidence = <<90>>
        /\ (lastResp.net = "ok" /\ lastResp.status = 200 /\ lastResp.body = "empty") =>
               lastOut.v = [name |-> <<>>, remedy |-> <<>>, confidence |-> <<>>]
C7_Witness ==
    /\ lastResp.net = "error" /\ ~loading
    /\ result = <<[name |-> <<"Unavailable">>, remedy |-> <<"Backend not reachable.">>,
                   confidence |-> <<0>>]>>

\* C8: no exception thrown by a read or a write of browser storage escapes
\* the application.
C8_StorageFaultsCaught ==
    health # "ok" => crash # "effect"

\* C9: a reload restores the view that was active before it and leaves that
\* view in the 'tab' record; with no record the view is "home".
C9_TabRestored ==
    [][Reload =>
           /\ appUp => (appUp' /\ tab' = tab /\ tabRec' = <<tab>>)
           /\ tabRec = <<>> => (appUp' /\ tab' = "home")]_vars
C9_Witness ==
    last = "reload" /\ appUp /\ tab = "market" /\ tabRec = <<"market">>

\* C10: the meter shows Hold when the last sample is greater than the sample
\* three places before it, Sell Soon when it is smaller, Neutral when they are
\* equal, and Neutral for every series of fewer than 4 samples.
C10_TrendHeuristic ==
    text # "" =>
        LET n == Len(series)
        IN  IF n < 4 THEN text = "Neutral"
            ELSE /\ series[n] > series[n - 3] => text = "Hold (Uptrend)"
                 /\ series[n] < series[n - 3] => text = "Sell Soon (Downtrend)"
                 /\ series[n] = series[n - 3] => text = "Neutral"
C10_Witness ==
    /\ Len(series) = 5 /\ text = "Hold (Uptrend)"
    /\ series[1] > series[4] /\ series[2] < series[5]

\* C11: for a principal P > 0, a term n >= 1 and a rate r >= 0, the installment
\* at rate zero is exactly P / n, and the installment at any rate above zero is
\* strictly greater than P / n.
C11_InterestRaisesInstallment ==
    /\ emiR = Zero => emi = NumDiv(emiP, NumOfInt(emiN))
    /\ NumCmp(emiR, Zero) > 0 => NumCmp(emi, NumDiv(emiP, NumOfInt(emiN))) > 0

\* k is the whole number nearest to x, halves going up: 2k - 1 <= 2x < 2k + 1
Nearest(x, k) ==
    /\ NumCmp(Num(x.s, x.m, x.e + 1), NumOfInt(2 * k - 1)) >= 0
    /\ NumCmp(Num(x.s, x.m, x.e + 1), NumOfInt(2 * k + 1)) < 0
\* C12: the installment shown is the computed installment rounded to the
\* nearest currency unit; the total payment is the computed (unrounded)
\* installment multiplied by n and the total interest is that total payment
\* minus P, and both are shown rounded to the nearest unit.
C12_OutputsFromInstallment ==
    /\ Nearest(emi, emiText)
    /\ total = NumMul(emi, NumOfInt(emiN))
    /\ interest = NumSub(total, emiP)
    /\ Nearest(total, totalText)
    /\ Nearest(interest, interestText)
C12_Witness ==
    /\ emiP = Num(1, <<905, 1>>, -1) /\ emiR = NumOfInt(12) /\ emiN = 12
    /\ emiText = 222 /\ totalText = 2666 /\ interestText = 165
\* C12 as stated: the total payment shown is the installment shown multiplied
\* by n, and the total interest shown is the total payment shown minus P.
C12_TotalOfShownInstallment ==
    /\ totalText = emiText * emiN
    /\ NumOfInt(interestText) = NumSub(NumOfInt(totalText), emiP)

\* C13: for every supported crop, every area and every practice factor of 0.9,
\* 1.0 and 1.1 the expected yield is baseYield[crop] * area * factor (with
\* factor 1.0 it is baseYield[crop] * area), and the revenue is the expected
\* yield times 2000, whatever the crop. For a whole area and factor 1.0 the
\* page shows these products exactly.
C13_YieldAndRevenue ==
    /\ crop \in Crops /\ factor \in FactorInputs
    /\ yieldQtl = NumMul(NumMul(NumOfInt(baseYield[crop]), area), factor)
    /\ factor = One => yieldQtl = NumMul(NumOfInt(baseYield[crop]), area)
    /\ revenue = NumMul(yieldQtl, NumOfInt(2000))
    /\ \A k \in 1..10 :
           (area = NumOfInt(k) /\ factor = One) =>
               /\ yieldText = 10 * baseYield[crop] * k
               /\ revenueText = 2000 * baseYield[crop] * k
C13_Witness ==
    /\ crop = "Tomato" /\ area = Num(1, <<5>>, -1)
    /\ factor = Num(1, <<3277, 3276, 3276, 3276, 8>>, -51)
    /\ yieldText = 2200 /\ revenueText = 440000

\* C14: every listing of the collection, in every state reachable by form
\* edits, adds and removes, has a quantity above zero and a price above zero.
C14_PositiveQtyAndPrice ==
    \A i \in 1..Len(items) : items[i].qty > 0 /\ items[i].price > 0

\* the collection holds a listing with this id
Listed(a, id) == \E i \in 1..Len(a) : a[i].k = "obj" /\ a[i].id = id
\* C15: no add and no remove is lost, also when two handler invocations run
\* before the component has re-rendered: every valid add grows the collection
\* by exactly one listing and every remove of a present id shrinks it by
\* exactly one.
C15_NoUpdateLost ==
    [][/\ last' = "add" => Len(items') = Len(items) + 1
       /\ last' = "remove" => Len(items') = Len(items) - 1
       /\ last' = "addTwice" => Len(items') = Len(items) + 2
       /\ \A id1, id2 \in IdPool :
              (removeTwice(id1, id2) /\ Listed(items, id1) /\ Listed(items, id2)) =>
                  Len(items') = Len(items) - 2
       /\ \A id \in IdPool : \A ts \in Times :
              ((addItemThenRemove(ts, id) \/ removeThenAddItem(id, ts)) /\ Listed(items, id)) =>
                  (Len(items') = Len(items) /\ ~Listed(items', id))]_vars

\* C16: when a second image was chosen while the request of an earlier image
\* was outstanding, then once all requests have completed, in whatever order
\* the responses arrived, a diagnosis that is shown is the diagnosis of the
\* image chosen last.
C16_LatestImageWins ==
    (/\ pending = <<>> /\ file # <<>> /\ ~loading /\ result # <<>>
     /\ \E f \in Files : result[1].name = <<Diagnosis(f)>>) =>
        result[1].name = <<Diagnosis(file[1])>>

\* C17: loading is true exactly while a detection request is outstanding:
\* loading is false only if no request is pending (and true only if one is),
\* and a result is displayed only when no request is pending.
C17_LoadingWhilePending ==
    /\ loading <=> pending # <<>>
    /\ (~loading /\ result # <<>>) => pending = <<>>

\* C18: whatever the 'tab' record holds when the page loads, the active view
\* of the mounted application is one of the seven known views.
C18_KnownView ==
    appUp => tab \in Views
====
